---- MODULE Spec2Model ----
(***************************************************************************)
(* Model of the persistent call-result cache of src/src/memoizable.py      *)
(* (class Memoizable) with its two users: EasyYaml (src/src/easy_yaml.py,  *)
(* content-fingerprint policy) and a time-policy subject such as           *)
(* CachedRedcap (src/src/redcap.py).                                       *)
(*                                                                         *)
(* The state is the environment (wall clock, the source data behind each   *)
(* name, the durable cache file), up to two Memoizable instances opened on *)
(* the same cache file, and the record of the last call with the object  *)
(* it returned.   One action is one whole run of a method along one of    *)
(* its paths.                                                              *)
(***************************************************************************)
EXTENDS Integers, Sequences, FiniteSets, TLC

VARIABLES
    subject,         \* which class the instances are (fixed after Init)
    expire_in_days,  \* constructor argument, a rational <<num, den>> (fixed)
    clock,           \* time.time(), in seconds
    source,          \* the bytes behind each name (file content, remote table)
    disk,            \* the durable resource self.cache_file, with the
                     \* instance that wrote it last
    status,          \* per instance: "unborn", "live", "failed", "gone"
    cache,           \* per instance: self.cache, a dict args -> <<value, stamp>>
    executions,      \* how often execute has been invoked
    last             \* the last call: who, what, which path, the result as
                     \* returned, and the returned object as the caller
                     \* holds it now

vars == <<subject, expire_in_days, clock, source, disk, status, cache,
          executions, last>>

-----------------------------------------------------------------------------
(* Bounds of the model *)

\* at most this many invocations of execute in one behaviour
MaxExec == 2
\* The Memoizable objects a behaviour creates; each is constructed once.
Inst == {1, 2}
Names == {"a", "b"}
Contents == {"x", "y"}
\* the names whose bytes the environment rewrites
Rewritten == {"a"}

\* expire_in_days=7 is the constructor's default
DefaultExpireInDays == 7

\* The subjects: EasyYaml (hashfunc=sha256, execute overridden), a subject
\* with the default time policy and execute overridden, and Memoizable
\* itself, whose execute is not overridden.
Subjects == {"EasyYaml", "Timed", "Memoizable"}

\* The elements an argument tuple is made of: a str is hashable, a list is not.
Elems == [name : Names, kind : {"str"}] \cup {[name |-> "a", kind |-> "list"]}
ArgTuples == {<<e>> : e \in Elems}

-----------------------------------------------------------------------------
(* Values *)

\* The result of a computation: the parsed document, and whether a caller
\* has since modified the object in place.
Value == [doc : Contents, edited : BOOLEAN]
NoValue == [doc |-> "none", edited |-> FALSE]

\* what an in-place modification by the caller (df.rename(inplace=True))
\* does to an object
Edit(v) == [v EXCEPT !.edited = TRUE]

NoCall == [inst |-> 0, args |-> <<>>, path |-> "none", result |-> NoValue,
           obj |-> NoValue, aliased |-> FALSE]

Absent == [kind |-> "absent", blob |-> {}, writer |-> 0]
Corrupt == [kind |-> "corrupt", blob |-> {}, writer |-> 0]

EmptyDict == <<>>

\* A cache file left by an earlier run of a subclass with the time policy:
\* one entry, whose stamp is the start of the clock.
LeftBehind ==
    [kind |-> "pickle",
     blob |-> {<<(<<[name |-> "a", kind |-> "str"]>>),
                 [doc |-> "x", edited |-> FALSE], 0>>},
     writer |-> 0]

-----------------------------------------------------------------------------
(* memoizable.py: module-level functions *)

\* a check that never reports an unhashable tuple
hashable_Always(args) == TRUE

hashable(args) == \A n \in DOMAIN args : args[n].kind # "list"

\* The digest of a file's bytes.  Collisions of SHA-256 are not modelled.
sha256(bytes) == <<"sha256", bytes>>

\* A cache file left by an earlier run of EasyYaml: one entry, parsed from
\* the content "x" and stamped with its fingerprint.
LeftBehindYaml ==
    [kind |-> "pickle",
     blob |-> {<<(<<[name |-> "a", kind |-> "str"]>>),
                 [doc |-> "x", edited |-> FALSE], sha256("x")>>},
     writer |-> 0]

\* the comparison inverted
not_equal_Inverted(a, b) == a = b

__not_equal__(a, b) == a # b

-----------------------------------------------------------------------------
(* Memoizable: the staleness policy *)

HasHashfunc == subject = "EasyYaml"

expire_in == (expire_in_days[1] * 60 * 60 * 24) \div expire_in_days[2]

\* stale already at the expiry instant
is_expired_default_AtExpiry(cached, current) == current >= cached

is_expired_default(cached, current) == current > cached

is_expired(cached, current) ==
    IF HasHashfunc THEN __not_equal__(cached, current)
    ELSE is_expired_default(cached, current)

current_stamp(args, t, src) ==
    IF HasHashfunc THEN sha256(src[args[1].name]) ELSE t

expiration_stamp_default(t) == t + expire_in

\* the expiry computed from the clock as it was before execute ran
StoredStamp_Before(current, t) ==
    IF HasHashfunc THEN current ELSE expiration_stamp_default(clock)

\* lines 44-45: the stamp to store, given the stamp `current` taken before
\* execute and the clock `t` after it
StoredStamp(current, t) ==
    IF HasHashfunc THEN current ELSE expiration_stamp_default(t)

-----------------------------------------------------------------------------
(* The durable resource *)

\* pickle.dump of the dict: the entries by content, object identity is lost
Pickle(c) == {<<a, c[a][1], c[a][2]>> : a \in DOMAIN c}

Unpickle(b) ==
    [a \in {t[1] : t \in b} |->
        LET t == CHOOSE t \in b : t[1] = a IN <<t[2], t[3]>>]

\* a save that keeps the entries of the file it overwrites
save_cache_Merge(i, c) ==
    [kind |-> "pickle",
     blob |-> Pickle(c) \cup {t \in disk.blob : t[1] \notin DOMAIN c},
     writer |-> i]

save_cache(i, c) == [kind |-> "pickle", blob |-> Pickle(c), writer |-> i]

\* What a failed save leaves behind: open() failed and the file is as it
\* was, or open(.., 'wb') truncated it and the dump did not complete.
FailedSave(d) == {d, Corrupt}

-----------------------------------------------------------------------------
(* The computation *)

\* EasyYaml.execute: parse the file's current bytes
Execute(args, src) == [doc |-> src[args[1].name], edited |-> FALSE]

\* an execute that returns instead of raising
Overridden_Always == TRUE

\* lines 64-66: whether the subject overrides execute
Overridden == subject # "Memoizable"

\* The instants at which the clock is observed: the start, one time-to-live
\* later, and the second after that.
Instants == {0, expire_in, expire_in + 1}

CanExecute == executions < MaxExec

Present(i, args) == args \in DOMAIN cache[i]

\* a handler that never trusts an entry
NeedsExecute_Always(i, args) == TRUE

\* line 42: cached is None or self.is_expired(cached[1], current)
NeedsExecute(i, args) ==
    IF ~Present(i, args) THEN TRUE
    ELSE is_expired(cache[i][args][2], current_stamp(args, clock, source))

\* What the environment may do between the handler's two reads of it
\* (current_stamp at line 41; execute and expiration_stamp at lines 43-45):
\* time passes, and the bytes behind the name may be rewritten.
During(args, t2, s2) ==
    /\ t2 \in {t \in Instants : t >= clock}
    /\ s2 \in {source} \cup
              {[source EXCEPT ![n] = c] :
                  n \in {args[1].name} \cap Rewritten, c \in Contents}

-----------------------------------------------------------------------------
(* Init: nothing constructed yet; the cache file does not exist or holds   *)
(* bytes that are no pickle.  Memoizable itself never writes the file, so  *)
(* for it the file may also be one a subclass left behind.                 *)

Init ==
    /\ subject \in Subjects
    /\ expire_in_days \in
          IF subject = "Timed"
          THEN {<<DefaultExpireInDays, 1>>, <<1, 60 * 60 * 24>>}
          ELSE {<<DefaultExpireInDays, 1>>}
    /\ clock = 0
    /\ source = [n \in Names |-> "x"]
    /\ disk \in {Absent, Corrupt}
                \cup (IF subject = "Memoizable" THEN {LeftBehind} ELSE {})
                \cup (IF subject = "EasyYaml" THEN {LeftBehindYaml} ELSE {})
    /\ status = [i \in Inst |-> "unborn"]
    /\ cache = [i \in Inst |-> EmptyDict]
    /\ executions = 0
    /\ last = NoCall

-----------------------------------------------------------------------------
(* Memoizable.__init__ and load_cache *)

\* a constructor that never reads the file
load_cache_Empty(d) == EmptyDict

\* lines 52-57, the file exists and unpickles, or does not exist
load_cache(d) == IF d.kind = "pickle" THEN Unpickle(d.blob) ELSE EmptyDict

\* lines 53-55: whether pickle.load raises
LoadRaises(d) == d.kind = "corrupt"

Construct(i) ==
    /\ status[i] = "unborn"
    /\ IF LoadRaises(disk)
       THEN /\ status' = [status EXCEPT ![i] = "failed"]
            /\ cache' = [cache EXCEPT ![i] = EmptyDict]
       ELSE /\ status' = [status EXCEPT ![i] = "live"]
            /\ cache' = [cache EXCEPT ![i] = load_cache(disk)]
    /\ UNCHANGED <<subject, expire_in_days, clock, source, disk, executions,
                   last>>

\* Construction by a process that owns the cache file: no other instance is
\* open on it.
ConstructOwned(i) ==
    /\ \A j \in Inst \ {i} : status[j] # "live"
    /\ Construct(i)

\* The instance is dropped; the objects it returned live on, but are no
\* longer the cached ones.
Discard(i) ==
    /\ status[i] = "live"
    /\ status' = [status EXCEPT ![i] = "gone"]
    /\ cache' = [cache EXCEPT ![i] = EmptyDict]
    /\ last' = IF last.inst = i THEN NoCall ELSE last
    /\ UNCHANGED <<subject, expire_in_days, clock, source, disk, executions>>

-----------------------------------------------------------------------------
(* Memoizable.__call__, one action per path *)

\* line 48: return value -- the very object stored at line 46
ReturnOnMiss(v) == [obj |-> v, aliased |-> TRUE]

\* the hit path without the deepcopy
ReturnOnHit_Alias(v) == [obj |-> v, aliased |-> TRUE]

\* line 50: return copy.deepcopy(self.cache[args][0])
ReturnOnHit(v) == [obj |-> v, aliased |-> FALSE]

\* line 38: return self.execute(*args) -- stored nowhere
ReturnUncached(v) == [obj |-> v, aliased |-> FALSE]

\* the record of a call that returned `ret`
Returned(i, args, path, ret) ==
    [inst |-> i, args |-> args, path |-> path, result |-> ret.obj,
     obj |-> ret.obj, aliased |-> ret.aliased]

\* the record of a call that raised
Raised(i, args, path) ==
    [inst |-> i, args |-> args, path |-> path, result |-> NoValue,
     obj |-> NoValue, aliased |-> FALSE]

\* lines 36-38
CallBypass(i, args) ==
    /\ status[i] = "live"
    /\ ~hashable(args)
    /\ Overridden
    /\ CanExecute
    /\ last' = Returned(i, args, "bypass",
                        ReturnUncached(Execute(args, source)))
    /\ executions' = executions + 1
    /\ UNCHANGED <<subject, expire_in_days, clock, source, disk, status,
                   cache>>

\* a hit that renews the entry's stamp and rewrites the file
CallHit_Restamps(i, args) ==
    /\ status[i] = "live"
    /\ hashable(args)
    /\ ~NeedsExecute(i, args)
    /\ last' = Returned(i, args, "hit", ReturnOnHit(cache[i][args][1]))
    /\ LET c2 == [cache[i] EXCEPT ![args] =
                    <<@[1], StoredStamp(current_stamp(args, clock, source),
                                        clock)>>]
       IN /\ cache' = [cache EXCEPT ![i] = c2]
          /\ disk' = save_cache(i, c2)
    /\ UNCHANGED <<subject, expire_in_days, clock, source, status, executions>>

\* lines 40-42, 49-50
CallHit(i, args) ==
    /\ status[i] = "live"
    /\ hashable(args)
    /\ ~NeedsExecute(i, args)
    /\ last' = Returned(i, args, "hit", ReturnOnHit(cache[i][args][1]))
    /\ UNCHANGED <<subject, expire_in_days, clock, source, disk, status,
                   cache, executions>>

\* a store that starts a new dict at every write
Store_Only(c, args, value, stamp) == [a \in {args} |-> <<value, stamp>>]

\* a store that stamps every entry anew at each write
Store_RestampsAll(c, args, value, stamp) ==
    [a \in DOMAIN c \cup {args} |->
        IF a = args THEN <<value, stamp>> ELSE <<c[a][1], stamp>>]

\* line 46
Store(c, args, value, stamp) ==
    [a \in DOMAIN c \cup {args} |-> IF a = args THEN <<value, stamp>> ELSE c[a]]

\* lines 40-48, execute and save_cache succeed
CallRefresh(i, args) ==
    /\ status[i] = "live"
    /\ hashable(args)
    /\ NeedsExecute(i, args)
    /\ Overridden
    /\ CanExecute
    /\ \E t2 \in Instants, s2 \in [Names -> Contents] :
          /\ During(args, t2, s2)
          /\ clock' = t2
          /\ source' = s2
          /\ LET current == current_stamp(args, clock, source)
                 value == Execute(args, s2)
                 c2 == Store(cache[i], args, value, StoredStamp(current, t2))
             IN /\ cache' = [cache EXCEPT ![i] = c2]
                /\ disk' = save_cache(i, c2)
                /\ last' = Returned(i, args,
                                    IF Present(i, args) THEN "stale"
                                    ELSE "miss",
                                    ReturnOnMiss(value))
    /\ executions' = executions + 1
    /\ UNCHANGED <<subject, expire_in_days, status>>

\* a handler that saves on its way out of a failed execute
CallExecuteRaises_Saves(i, args) ==
    /\ status[i] = "live"
    /\ IF hashable(args) THEN NeedsExecute(i, args) ELSE TRUE
    /\ CanExecute
    /\ executions' = executions + 1
    /\ last' = Raised(i, args, "execute_raised")
    /\ disk' = save_cache(i, cache[i])
    /\ UNCHANGED <<subject, expire_in_days, clock, source, status, cache>>

\* line 38 or 43: execute raises (always, when it is not overridden:
\* lines 64-65), nothing after it runs
CallExecuteRaises(i, args) ==
    /\ status[i] = "live"
    /\ IF hashable(args) THEN NeedsExecute(i, args) ELSE TRUE
    /\ CanExecute
    /\ executions' = executions + 1
    /\ last' = Raised(i, args, "execute_raised")
    /\ UNCHANGED <<subject, expire_in_days, clock, source, disk, status,
                   cache>>

\* a handler that swallows the failure of save_cache and returns the value
CallSaveRaises_Swallowed(i, args) ==
    /\ status[i] = "live"
    /\ hashable(args)
    /\ NeedsExecute(i, args)
    /\ Overridden
    /\ CanExecute
    /\ LET current == current_stamp(args, clock, source)
           value == Execute(args, source)
           c2 == Store(cache[i], args, value, StoredStamp(current, clock))
       IN /\ cache' = [cache EXCEPT ![i] = c2]
          /\ last' = Returned(i, args, "miss", ReturnOnMiss(value))
    /\ disk' \in FailedSave(disk)
    /\ executions' = executions + 1
    /\ UNCHANGED <<subject, expire_in_days, clock, source, status>>

\* a handler that takes the entry back out when save_cache fails
CallSaveRaises_RollsBack(i, args) ==
    /\ status[i] = "live"
    /\ hashable(args)
    /\ NeedsExecute(i, args)
    /\ Overridden
    /\ CanExecute
    /\ \E t2 \in Instants, s2 \in [Names -> Contents] :
          /\ During(args, t2, s2)
          /\ clock' = t2
          /\ source' = s2
    /\ disk' \in FailedSave(disk)
    /\ executions' = executions + 1
    /\ last' = Raised(i, args, "save_raised")
    /\ UNCHANGED <<subject, expire_in_days, status, cache>>

\* lines 40-47, save_cache raises: line 46 has run, line 48 does not
CallSaveRaises(i, args) ==
    /\ status[i] = "live"
    /\ hashable(args)
    /\ NeedsExecute(i, args)
    /\ Overridden
    /\ CanExecute
    /\ \E t2 \in Instants, s2 \in [Names -> Contents] :
          /\ During(args, t2, s2)
          /\ clock' = t2
          /\ source' = s2
          /\ LET current == current_stamp(args, clock, source)
                 value == Execute(args, s2)
                 c2 == Store(cache[i], args, value, StoredStamp(current, t2))
             IN cache' = [cache EXCEPT ![i] = c2]
    /\ disk' \in FailedSave(disk)
    /\ executions' = executions + 1
    /\ last' = Raised(i, args, "save_raised")
    /\ UNCHANGED <<subject, expire_in_days, status>>

Call(i, args) ==
    \/ CallBypass(i, args)
    \/ CallHit(i, args)
    \/ CallRefresh(i, args)
    \/ CallExecuteRaises(i, args)
    \/ CallSaveRaises(i, args)

-----------------------------------------------------------------------------
(* The caller and the environment *)

\* The caller modifies the object the last call returned, in place
\* (redcap.py line 211: df.rename(..., inplace=True)).  If that object is
\* the cached one, the cache entry changes with it.
Mutate ==
    /\ last.obj # NoValue
    /\ last' = [last EXCEPT !.obj = Edit(@)]
    /\ cache' = IF last.aliased
                THEN [cache EXCEPT ![last.inst][last.args] =
                         <<Edit(@[1]), @[2]>>]
                ELSE cache
    /\ UNCHANGED <<subject, expire_in_days, clock, source, disk, status,
                   executions>>

Tick ==
    /\ clock' \in {t \in Instants : t > clock}
    /\ UNCHANGED <<subject, expire_in_days, source, disk, status, cache,
                   executions, last>>

Modify(n, c) ==
    /\ source[n] # c
    /\ source' = [source EXCEPT ![n] = c]
    /\ UNCHANGED <<subject, expire_in_days, clock, disk, status, cache,
                   executions, last>>

\* what the instances, the caller and the environment do once constructed
Run ==
    \/ \E i \in Inst : Discard(i)
    \/ \E i \in Inst, args \in ArgTuples : Call(i, args)
    \/ Mutate
    \/ Tick
    \/ \E n \in Rewritten, c \in Contents : Modify(n, c)

\* One owner of the cache file at a time: an instance is constructed when
\* its predecessor is gone.
Next ==
    \/ \E i \in Inst : ConstructOwned(i)
    \/ Run

Spec == Init /\ [][Next]_vars

\* Two processes open the same cache file at once.
NextShared ==
    \/ \E i \in Inst : Construct(i)
    \/ Run

SpecShared == Init /\ [][NextShared]_vars

-----------------------------------------------------------------------------
(* Properties *)

HashableArgs == {args \in ArgTuples : args[1].kind = "str"}
UnhashableArgs == ArgTuples \ HashableArgs

\* the policy reports the entry under args fresh
Fresh(i, args) ==
    /\ args \in DOMAIN cache[i]
    /\ IF HasHashfunc
       THEN cache[i][args][2] = sha256(source[args[1].name])
       ELSE ~(clock > cache[i][args][2])

Computed == {"miss", "stale"}
ReturnedNormally == {"miss", "stale", "hit", "bypass"}

\* the step invokes execute
Executes == executions' = executions + 1

\* C1: a call on the miss or stale path invokes execute once; when the same
\* call is made again with nothing done to the returned object in between
\* and the policy reports the entry fresh, execute is not invoked again and
\* the second result equals the first.
C1_Idempotence ==
    [][\A i \in Inst, args \in HashableArgs :
          Call(i, args) =>
             /\ last'.path \in Computed => Executes
             /\ ( /\ last.inst = i /\ last.args = args
                  /\ last.path \in Computed
                  /\ last.obj = last.result
                  /\ Fresh(i, args) )
                => /\ last'.path = "hit"
                   /\ executions' = executions
                   /\ last'.result = last.result]_vars

C1_Witness ==
    /\ last.path = "hit"
    /\ executions = 1
    /\ last.result = Execute(last.args, source)
    /\ disk.writer = last.inst

\* C2: the object a fresh hit returns is a copy: when the caller modifies
\* it, no cache entry and nothing on disk changes, and the next fresh hit
\* for the same args returns the value the first hit returned.
C2_HitIsolation ==
    [][/\ (Mutate /\ last.path = "hit") => (cache' = cache /\ disk' = disk)
       /\ \A i \in Inst, args \in HashableArgs :
             ( /\ Call(i, args)
               /\ last.inst = i /\ last.args = args /\ last.path = "hit"
               /\ Fresh(i, args) )
             => /\ last'.path = "hit"
                /\ last'.result = last.result]_vars

C2_Witness ==
    /\ last.path = "hit"
    /\ last.obj.edited
    /\ ~last.result.edited
    /\ cache[last.inst][last.args][1] = last.result

\* C3: the object a miss or stale call returns can be modified by the
\* caller without the entry under args changing, and the following fresh
\* hit returns the value that was computed.
C3_MissIsolation ==
    [][/\ (Mutate /\ last.path \in Computed) => cache' = cache
       /\ \A i \in Inst, args \in HashableArgs :
             ( /\ Call(i, args)
               /\ last.inst = i /\ last.args = args
               /\ last.path \in Computed
               /\ Fresh(i, args) )
             => last'.result = last.result]_vars

\* C4: when execute raises, the call raises and neither the in-memory
\* store nor the durable store changes.
C4_ExecuteFailureLeavesStores ==
    [][(Executes /\ last'.path = "execute_raised")
          => /\ cache' = cache
             /\ disk' = disk
             /\ last'.result = NoValue]_vars

C4_Witness ==
    /\ last.path = "execute_raised"
    /\ Overridden
    /\ disk.kind = "pickle"
    /\ cache[last.inst] # EmptyDict

\* C5: construction never fails: on a cache file that does not exist or
\* does not unpickle the instance comes up with an empty store.
C5_ConstructNeverFails ==
    [][\A i \in Inst :
          (ConstructOwned(i) /\ disk.kind # "pickle")
             => /\ status'[i] = "live"
                /\ cache'[i] = EmptyDict]_vars

\* the durable store reads back as the in-memory store of instance i
DurableEquals(i) == ~LoadRaises(disk) /\ load_cache(disk) = cache[i]

\* C6: whenever a call of the one instance that owns the cache file returns
\* normally, the durable store equals the in-memory store.
C6_WriteThrough ==
    [][\A i \in Inst, args \in ArgTuples :
          (Call(i, args) /\ last'.path \in ReturnedNormally)
             => DurableEquals(i)']_vars

\* C7: under the time policy the stored stamp is the clock at the write
\* plus expire_in_days * 86400 seconds (7 days when the constructor's
\* default is used), and a call for a present key invokes execute exactly
\* when the clock is past the stored stamp.
C7_TimePolicy ==
    /\ [](subject # "Timed" => expire_in = 604800)
    /\ [][\A i \in Inst, args \in HashableArgs :
             (Call(i, args) /\ ~HasHashfunc) =>
                /\ last'.path \in Computed =>
                      cache'[i][args][2] =
                         clock' + (expire_in_days[1] * 86400) \div expire_in_days[2]
                /\ args \in DOMAIN cache[i] =>
                      (Executes <=> clock > cache[i][args][2])]_vars

C7_Witness ==
    /\ subject = "Timed"
    /\ expire_in_days = <<1, 86400>>
    /\ clock = 2
    /\ last.path = "stale"
    /\ cache[last.inst][last.args][2] = 3

\* C8: under the content policy a call for a present key invokes execute
\* exactly when the stored fingerprint differs from the fingerprint of the
\* file's current bytes, and the passing of time changes no entry's
\* freshness.
C8_ContentPolicy ==
    [][/\ \A i \in Inst, args \in HashableArgs :
             (Call(i, args) /\ HasHashfunc /\ args \in DOMAIN cache[i]) =>
                (Executes <=>
                    cache[i][args][2] # sha256(source[args[1].name]))
       /\ (Tick /\ HasHashfunc) =>
             \A i \in Inst, args \in HashableArgs :
                Fresh(i, args)' <=> Fresh(i, args)]_vars

C8_Witness ==
    /\ HasHashfunc
    /\ last.path = "stale"
    /\ last.result.doc = "y"
    /\ cache[last.inst][last.args][2] = sha256("y")

\* C9: a call with an unhashable argument tuple always invokes execute,
\* returns its result unless execute itself raises, and changes neither the
\* in-memory store nor the durable store.
C9_UncacheableBypass ==
    [][\A i \in Inst, args \in UnhashableArgs :
          Call(i, args) =>
             /\ Executes
             /\ cache' = cache
             /\ disk' = disk
             /\ \/ /\ last'.path = "bypass"
                   /\ last'.result = Execute(args, source)
                \/ last'.path = "execute_raised"]_vars

C9_Witness ==
    /\ last.path = "bypass"
    /\ last.args = <<[name |-> "a", kind |-> "list"]>>
    /\ executions = 2
    /\ <<[name |-> "a", kind |-> "str"]>> \in DOMAIN cache[last.inst]
    /\ Unpickle(disk.blob) = cache[last.inst]

\* C10: the store a miss or stale call saves reads back equal to the
\* in-memory store; an instance constructed on a saved cache file starts
\* with exactly the saved entries; and while its store is as loaded, a call
\* for an entry the policy reports fresh is a hit that returns the saved
\* value without invoking execute.
C10_RoundTrip ==
    [][/\ \A i \in Inst, args \in HashableArgs :
             (Call(i, args) /\ last'.path \in Computed)
                => /\ disk'.kind = "pickle"
                   /\ Unpickle(disk'.blob) = cache'[i]
       /\ \A j \in Inst :
             (ConstructOwned(j) /\ disk.kind = "pickle")
                => /\ status'[j] = "live"
                   /\ Pickle(cache'[j]) = disk.blob
       /\ \A j \in Inst, args \in HashableArgs :
             ( /\ Call(j, args)
               /\ disk.kind = "pickle"
               /\ Pickle(cache[j]) = disk.blob
               /\ Fresh(j, args) )
             => /\ last'.path = "hit"
                /\ executions' = executions
                /\ \E t \in disk.blob :
                      t[1] = args /\ t[2] = last'.result]_vars

C10_Witness ==
    /\ status[1] = "gone"
    /\ status[2] = "live"
    /\ disk.kind = "pickle"
    /\ disk.writer = 1
    /\ executions = 1
    /\ last.inst = 2
    /\ last.path = "hit"

\* C11: when the durable write of a miss or stale refresh does not
\* complete, the call raises: it returns no value to the caller.
C11_SaveFailureEscalates ==
    [][( /\ Executes
         /\ last'.args \in HashableArgs
         /\ last'.path # "execute_raised"
         /\ disk' # save_cache(last'.inst, cache'[last'.inst]) )
       => /\ last'.path = "save_raised"
          /\ last'.result = NoValue
          /\ last'.obj = NoValue]_vars

C11_Witness ==
    /\ last.path = "save_raised"
    /\ last.args \in DOMAIN cache[last.inst]
    /\ disk.kind = "corrupt"

\* C12: with execute not overridden, every call that needs the computation
\* (unhashable args, a miss, a stale entry) invokes execute and raises; it
\* returns no value, stores no entry and saves nothing.
C12_MissingExecuteFails ==
    [][\A i \in Inst, args \in ArgTuples :
          ( /\ Call(i, args)
            /\ subject = "Memoizable"
            /\ args \in UnhashableArgs \/ ~Fresh(i, args) )
          => /\ Executes
             /\ last'.path = "execute_raised"
             /\ last'.result = NoValue
             /\ last'.obj = NoValue
             /\ cache' = cache
             /\ disk' = disk]_vars

C12_Witness ==
    /\ subject = "Memoizable"
    /\ last.path = "execute_raised"
    /\ last.args \in DOMAIN cache[last.inst]
    /\ clock > cache[last.inst][last.args][2]
    /\ disk = LeftBehind

\* C13: while an instance lives, a key present in its store stays present,
\* and a key becomes present only by a call of that instance for it that
\* invoked execute.
C13_NoDeletion ==
    [][\A i \in Inst :
          (status[i] = "live" /\ status'[i] = "live")
             => /\ DOMAIN cache[i] \subseteq DOMAIN cache'[i]
                /\ \A k \in DOMAIN cache'[i] \ DOMAIN cache[i] :
                      Executes /\ last'.inst = i /\ last'.args = k]_vars

C13_Witness ==
    /\ last.path = "hit"
    /\ Cardinality(DOMAIN cache[last.inst]) = 2
    /\ executions = 2

\* C14: with two instances open on one cache file, a save writes the
\* saving instance's store and nothing else: every entry of the file is an
\* entry of that store, whatever the file held before.
C14_LastWriteWins ==
    [][(Executes /\ last'.path \in Computed)
          => /\ disk'.kind = "pickle"
             /\ disk'.writer = last'.inst
             /\ disk'.blob = Pickle(cache'[last'.inst])
             /\ \A t \in disk'.blob : t[1] \in DOMAIN cache'[last'.inst]]_vars

\* Both instances were constructed on the absent file and are live; 1 has
\* stored "a" and its call returned (the caller has edited the returned
\* object), then 2 has stored "b": the file holds "b" only.
C14_Witness ==
    /\ status = [i \in Inst |-> "live"]
    /\ DOMAIN cache[1] = {<<[name |-> "a", kind |-> "str"]>>}
    /\ cache[1][<<[name |-> "a", kind |-> "str"]>>][1].edited
    /\ DOMAIN cache[2] = {<<[name |-> "b", kind |-> "str"]>>}
    /\ last.inst = 2
    /\ last.path = "miss"
    /\ disk.kind = "pickle"
    /\ disk.writer = 2
    /\ {t[1] : t \in disk.blob} = {<<[name |-> "b", kind |-> "str"]>>}

C16_HitHasNoEffects ==
    [][\A i \in Inst, args \in HashableArgs :
          (Call(i, args) /\ Fresh(i, args))
             => /\ last'.path = "hit"
                /\ executions' = executions
                /\ cache' = cache
                /\ disk' = disk]_vars

C16_Witness ==
    /\ last.path = "hit"
    /\ executions = 1
    /\ clock > 0
    /\ disk.kind = "pickle"
    /\ disk.blob = Pickle(cache[last.inst])
    /\ Fresh(last.inst, last.args)

\* C17: a call that invokes execute for hashable args leaves the entry of
\* every other key as it was in the caller's cache, and when it saves, the
\* file it writes holds those entries unchanged.
C17_OtherKeysKept ==
    [][\A i \in Inst :
          (Executes /\ last'.inst = i /\ last'.args \in HashableArgs)
             => \A k \in DOMAIN cache[i] \ {last'.args} :
                   /\ k \in DOMAIN cache'[i]
                   /\ cache'[i][k] = cache[i][k]
                   /\ last'.path \in Computed
                         => <<k, cache[i][k][1], cache[i][k][2]>>
                               \in disk'.blob]_vars

C17_Witness ==
    /\ last.path \in Computed
    /\ executions = 2
    /\ \E k \in DOMAIN cache[last.inst] \ {last.args} :
          /\ cache[last.inst][k][2] # cache[last.inst][last.args][2]
          /\ <<k, cache[last.inst][k][1], cache[last.inst][k][2]>>
                \in disk.blob

\* C18 as claimed: under the content policy a hit returns a value that was
\* computed from the content the input has at the time of the hit.
C18_HitIsCurrent ==
    [][\A i \in Inst, args \in HashableArgs :
          (HasHashfunc /\ Call(i, args) /\ last'.path = "hit")
             => last'.result.doc = source[args[1].name]]_vars

\* C19 as claimed: when save_cache raises, the entry computed by the call is
\* in the caller's cache and the file does not hold it.
C19_EntryNotDurable ==
    [][\A i \in Inst, args \in HashableArgs :
          (Executes /\ last' = Raised(i, args, "save_raised"))
             => /\ args \in DOMAIN cache'[i]
                /\ \/ disk'.kind # "pickle"
                   \/ <<args, cache'[i][args][1], cache'[i][args][2]>>
                         \notin disk'.blob]_vars

\* C19 as amended: when save_cache raises, the entry computed by the call is
\* in the caller's cache, and the file is as it was before the call or
\* unreadable; the next call of that instance with the same args, the entry
\* being fresh, is a hit on that entry that does not invoke execute and does
\* not write the file.
C19_NoRollback ==
    [][\A i \in Inst, args \in HashableArgs :
          /\ (Executes /\ last' = Raised(i, args, "save_raised"))
                => /\ args \in DOMAIN cache'[i]
                   /\ cache'[i][args][1] = Execute(args, source')
                   /\ cache'[i][args][2] =
                         StoredStamp(current_stamp(args, clock, source),
                                     clock')
                   /\ disk' \in {disk, Corrupt}
          /\ ( /\ last = Raised(i, args, "save_raised")
               /\ Call(i, args)
               /\ Fresh(i, args) )
                => /\ last'.path = "hit"
                   /\ last'.result = cache[i][args][1]
                   /\ executions' = executions
                   /\ disk' = disk]_vars

C19_Witness ==
    /\ last.path = "hit"
    /\ executions = 1
    /\ disk.kind # "pickle"
    /\ last.args \in DOMAIN cache[last.inst]
    /\ last.result = cache[last.inst][last.args][1]

====
